---- MODULE Spec2Model ----
(***************************************************************************)
(* ResourceReflector (src/reflector.js): an in-memory mirror of a remote   *)
(* collection, filled by a list call (listAndUpdate) and kept up to date   *)
(* by a watch (watchAndUpdate).  One reflector instance is modelled,       *)
(* together with the calls its owner makes (start, stop) and the           *)
(* completions of the remote calls it awaits.  JavaScript runs each        *)
(* continuation to its next await without interruption, so one action is   *)
(* the code from one suspension point to the next.                         *)
(*                                                                         *)
(* The module also models the shared API clients (src/client.js):          *)
(* loadConfig and sharedClient with their module-level state, the          *)
(* configuration loaded last and the cache of clients.  Both functions     *)
(* are synchronous, so each call is one action.                            *)
(***************************************************************************)
EXTENDS Integers, Sequences, FiniteSets, Bags, TLC

\* ---------------------------------------------------------------- bounds
\* start() calls the owner makes
MaxStarts == 2
\* stop() calls the owner makes
MaxStops == 1
\* largest version token the server issues
MaxRV == 3
\* loadConfig() calls the program makes
MaxLoads == 2

\* ------------------------------------------------------ program constants
\* let delay = 100; delay = 100
Floor == 100
\* (delay *= 2) > 30000
Ceiling == 30000
\* let resourceVersion = '0'
InitialRV == 0

VARIABLES
    resources,          \* this.resources
    firstLoadComplete,  \* this.firstLoadComplete
    stopping,           \* this._stopping
    watchTask,          \* this.watchTask is set
    starting,           \* start() calls awaiting their listAndUpdate()
    loops,              \* bag of watchAndUpdate() invocations: pc and locals
    calls,              \* outcome counts of the owner's calls
    last,               \* the step taken last and what the server sent in it
    tagged,             \* list responses carry generation marks (observation only)
    counting,           \* the loop's failed lists in a row are counted (observation only)
    kubeConfig,         \* client.js: let kubeConfig
    clientCache,        \* client.js: const clientCache
    made,               \* the clients constructed so far, in order (observation only)
    returned            \* outcome of the last loadConfig or sharedClient call

\* the module-level state of client.js and what is observed of its calls
clientVars == <<kubeConfig, clientCache, made, returned>>

vars == <<resources, firstLoadComplete, stopping, watchTask, starting, loops,
          calls, last, tagged, counting, kubeConfig, clientCache, made, returned>>

\* ------------------------------------------------------------ data model
Namespaces == {"a"}
Names == {"x", "y"}
\* generation marks of list responses; 0 marks an object delivered by a watch
\* and every object when responses are not marked
Gens == 0..2
\* notification types; ADDED stands for every type that is not DELETED
EventTypes == {"ADDED", "DELETED"}

\* an object as the server sends it: metadata.namespace, metadata.name,
\* metadata.resourceVersion; gen identifies the response that carried it
Objects(maxrv, gens) ==
    [namespace : Namespaces, name : Names, resourceVersion : 1..maxrv, gen : gens]

\* const key = `${item.metadata.namespace}/${item.metadata.name}`
KeyOf(obj) == <<obj.namespace, obj.name>>

\* new Map()
EmptyMap == [k \in {} |-> 0]

\* Map.prototype.set
MapSet(m, k, v) == [j \in (DOMAIN m) \cup {k} |-> IF j = k THEN v ELSE m[j]]

\* Map.prototype.delete
MapDelete(m, k) == [j \in (DOMAIN m) \ {k} |-> m[j]]

\* for (const item of items) { this.resources.set(key, item) }
RECURSIVE SetAll(_, _)
SetAll(m, items) ==
    IF items = <<>> THEN m
    ELSE SetAll(MapSet(m, KeyOf(Head(items)), Head(items)), Tail(items))

\* a faulty replacement that forgets this.resources.clear()
ReplaceAllNoClear(m, items) == SetAll(m, items)

\* a faulty replacement that clears the mirror and does not refill it
ReplaceAllCleared(m, items) == EmptyMap

\* this.resources.clear(); then one set per item
ReplaceAll(m, items) == SetAll(EmptyMap, items)

\* a faulty callback whose removal empties the mirror
ApplyEventDeleteAll(m, type, obj) ==
    IF type = "DELETED" THEN EmptyMap
    ELSE MapSet(m, KeyOf(obj), obj)

\* the watch callback's effect on the mirror: this.resources.delete(key) for
\* a DELETED notification, this.resources.set(key, obj) for any other
ApplyEvent(m, type, obj) ==
    IF type = "DELETED" THEN MapDelete(m, KeyOf(obj))
    ELSE MapSet(m, KeyOf(obj), obj)

\* ----------------------------------------------------- remote collaborator
\* The generation mark of a new list response: one no object of the mirror
\* carries, so that objects of different responses can be told apart.
FreshGen(m) ==
    IF ~tagged THEN 0
    ELSE IF \E k \in DOMAIN m : m[k].gen = 1 THEN 2 ELSE 1

\* item lists the server can return with collection token t: each object at
\* most once and in the order of the names, no object newer than the token
ItemLists(t, g) ==
    LET O == Objects(t, {g}) IN
    {<<>>} \cup {<<o>> : o \in O}
           \cup {<<op[1], op[2]>> :
                   op \in {q \in O \X O : q[1].name = "x" /\ q[2].name = "y"}}

\* list(filters, resumeToken): resourceVersionMatch = 'NotOlderThan', so the
\* token of the response is not older than the resume token
ListResponses(resume, m) ==
    LET lo == IF resume < 1 THEN 1 ELSE resume IN
    UNION {[items : ItemLists(t, FreshGen(m)), token : {t}] : t \in lo..MaxRV}

\* notifications a watch resumed at token rv can deliver next
WatchEvents(rv) ==
    [type : EventTypes, object : {o \in Objects(MaxRV, {0}) : o.resourceVersion > rv}]

\* ------------------------------------------------------------- client.js
\* let kubeConfig = null
Null == [serial |-> 0]

\* const clientCache = new Map(); let kubeConfig = null; no call made yet
ClientInit ==
    /\ kubeConfig = Null
    /\ clientCache = EmptyMap
    /\ made = <<>>
    /\ returned = [call |-> "none"]

Step(op, items, token, evs) == [op |-> op, items |-> items, token |-> token, ev |-> evs]

Init ==
    /\ resources = EmptyMap
    /\ firstLoadComplete = FALSE
    /\ stopping = FALSE
    /\ watchTask = FALSE
    /\ starting = 0
    /\ loops = EmptyBag
    /\ calls = [start |-> 0, ok |-> 0, failed |-> 0, usage |-> 0, stop |-> 0,
                abort |-> 0, failure |-> 0]
    /\ last = Step("new", <<>>, 0, <<>>)
    /\ tagged = FALSE
    /\ counting = FALSE
    /\ ClientInit

\* the same reflector, observed with generation marks on the list responses
InitTagged ==
    /\ resources = EmptyMap
    /\ firstLoadComplete = FALSE
    /\ stopping = FALSE
    /\ watchTask = FALSE
    /\ starting = 0
    /\ loops = EmptyBag
    /\ calls = [start |-> 0, ok |-> 0, failed |-> 0, usage |-> 0, stop |-> 0,
                abort |-> 0, failure |-> 0]
    /\ last = Step("new", <<>>, 0, <<>>)
    /\ tagged = TRUE
    /\ counting = FALSE
    /\ ClientInit

\* ------------------------------------------------------------- the loop
\* one watchAndUpdate() invocation: where it is suspended and its locals;
\* fails counts the lists that have failed in a row when they are counted
Loop(pc, rv, delay) ==
    [pc |-> pc, resourceVersion |-> rv, delay |-> delay, fails |-> 0]

Count(b) == [calls EXCEPT ![b] = @ + 1]

\* while (!this._stopping) { resourceVersion = await this.listAndUpdate(resourceVersion)
\* the loop condition, then either the next list request or the loop's end
Iterate(rv, delay) ==
    IF stopping THEN Loop("stopped", 0, 0)
    ELSE Loop("list", rv, delay)

\* a faulty catch that tests the delay against the ceiling before it doubles it
CatchTestedFirst(l) ==
    IF l.delay > Ceiling
    THEN Loop("failed", 0, l.delay * 2)
    ELSE Loop("sleep", l.resourceVersion, l.delay * 2)

\* catch (err): (delay *= 2) > 30000 gives up, otherwise the loop sleeps
Catch(l) ==
    IF l.delay * 2 > Ceiling
    THEN Loop("failed", 0, l.delay * 2)
    ELSE [Loop("sleep", l.resourceVersion, l.delay * 2) EXCEPT
            !.fails = IF counting /\ l.pc = "list" THEN l.fails + 1 ELSE 0]

\* a faulty listAndUpdate whose test of firstLoadComplete is inverted
EscalatedWhenLoaded == IF firstLoadComplete THEN 1 ELSE 0

\* listAndUpdate's catch: if (!this.firstLoadComplete && this.onFailure)
\* this.onFailure(err), as a number of onFailure calls (the reflector is
\* constructed with an onFailure callback)
Escalated == IF ~firstLoadComplete THEN 1 ELSE 0

\* the onFailure calls of a failed listAndUpdate followed by the loop's catch
CatchFailures(l, listFailed) ==
    (IF listFailed THEN Escalated ELSE 0)
    + (IF l.delay * 2 > Ceiling THEN 1 ELSE 0)

\* a loop that keeps the delay of earlier failures after a clean watch
AfterWatchNoReset(l) == Iterate(l.resourceVersion, l.delay)

\* a loop that treats the clean end of a watch as an error
AfterWatchAsError(l) == Catch(l)

\* a loop that sleeps for the floor delay after a clean watch
AfterWatchSleeps(l) == Loop("sleep", l.resourceVersion, Floor)

\* the watch returned without error: delay = 100; if (this._stopping) break;
\* then the loop condition
AfterWatch(l) == Iterate(l.resourceVersion, Floor)

\* a listAndUpdate that forgets to set firstLoadComplete
LoadedForgotten == firstLoadComplete

\* this.firstLoadComplete = true
Loaded == TRUE

\* a start() without its guard
AlreadyRunningUnchecked == FALSE

\* if (this.watchTask) throw new Error(`Watcher for ${this.kind} already running`)
AlreadyRunning == watchTask

Replace(l, n) == (loops (-) SetToBag({l})) (+) SetToBag({n})

\* ------------------------------------------------------------- start()
\* start() on a reflector whose loop handle is set: the usage error
StartRejected ==
    /\ calls.start < MaxStarts
    /\ AlreadyRunning
    /\ calls' = [calls EXCEPT !.start = @ + 1, !.usage = @ + 1]
    /\ last' = Step("startRejected", <<>>, 0, <<>>)
    /\ UNCHANGED <<resources, firstLoadComplete, stopping, watchTask, starting,
                   loops, tagged, counting, clientVars>>

\* await this.listAndUpdate(): the list request goes out without a token
StartCalled ==
    /\ calls.start < MaxStarts
    /\ ~AlreadyRunning
    /\ starting' = starting + 1
    /\ calls' = Count("start")
    /\ last' = Step("startCalled", <<>>, 0, <<>>)
    /\ UNCHANGED <<resources, firstLoadComplete, stopping, watchTask, loops, tagged, counting, clientVars>>

\* the list of start() succeeds: the mirror is replaced, the returned token
\* is dropped, and this.watchTask = this.watchAndUpdate() runs the loop to
\* its first await
StartListOk ==
    /\ starting > 0
    /\ \E r \in ListResponses(0, resources) :
         /\ resources' = ReplaceAll(resources, r.items)
         /\ last' = Step("startOk", r.items, r.token, <<>>)
    /\ firstLoadComplete' = Loaded
    /\ starting' = starting - 1
    /\ watchTask' = TRUE
    /\ loops' = loops (+) SetToBag({Iterate(InitialRV, Floor)})
    /\ calls' = Count("ok")
    /\ UNCHANGED <<stopping, tagged, counting, clientVars>>

\* a faulty listAndUpdate that clears the mirror before it awaits the list
FailedListCleared(m) == EmptyMap

\* the mirror after a list that failed: await listFn(opts) throws before
\* this.resources.clear() is reached, and the catch block does not touch it
FailedList(m) == m

\* the list of start() fails: listAndUpdate's catch, then start() rejects
StartListFail ==
    /\ starting > 0
    /\ starting' = starting - 1
    /\ calls' = [calls EXCEPT !.failed = @ + 1, !.failure = @ + Escalated]
    /\ last' = Step("startFailed", <<>>, 0, <<>>)
    /\ resources' = FailedList(resources)
    /\ UNCHANGED <<firstLoadComplete, stopping, watchTask, loops, tagged, counting,
                   clientVars>>

\* ------------------------------------------------------ watchAndUpdate()
\* the loop's list succeeds: the mirror is replaced and the watch is opened
\* at the returned token
LoopListOk ==
    \E l \in BagToSet(loops) :
      /\ l.pc = "list"
      /\ \E r \in ListResponses(l.resourceVersion, resources) :
           /\ resources' = ReplaceAll(resources, r.items)
           /\ last' = Step("listOk", r.items, r.token, <<>>)
           /\ loops' = Replace(l, Loop("watch", r.token, l.delay))
      /\ firstLoadComplete' = Loaded
      /\ UNCHANGED <<stopping, watchTask, starting, calls, tagged, counting, clientVars>>

\* the loop's list fails: listAndUpdate's catch rethrows into the loop's catch
LoopListFail ==
    \E l \in BagToSet(loops) :
      /\ l.pc = "list"
      /\ loops' = Replace(l, Catch(l))
      /\ calls' = [calls EXCEPT !.failure = @ + CatchFailures(l, TRUE)]
      /\ last' = Step("listFailed", <<>>, 0, <<>>)
      /\ resources' = FailedList(resources)
      /\ UNCHANGED <<firstLoadComplete, stopping, watchTask, starting, tagged, counting,
                     clientVars>>

\* a faulty callback that does not record the version of the notification
AdvanceForgotten(l, obj) == l

\* resourceVersion = obj.metadata.resourceVersion
Advance(l, obj) == Loop("watch", obj.resourceVersion, l.delay)

\* (type, obj) => { ... }: one notification of the open watch
WatchEvent ==
    \E l \in BagToSet(loops) :
      /\ l.pc = "watch"
      /\ \E e \in WatchEvents(l.resourceVersion) :
           /\ resources' = ApplyEvent(resources, e.type, e.object)
           /\ last' = Step("event", <<>>, 0, <<e>>)
           /\ loops' = Replace(l, Advance(l, e.object))
      /\ UNCHANGED <<firstLoadComplete, stopping, watchTask, starting, calls, tagged, counting, clientVars>>

\* the watch ends without error
WatchClosed ==
    \E l \in BagToSet(loops) :
      /\ l.pc = "watch"
      /\ loops' = Replace(l, AfterWatch(l))
      /\ last' = Step("watchClosed", <<>>, 0, <<>>)
      /\ UNCHANGED <<resources, firstLoadComplete, stopping, watchTask, starting,
                     calls, tagged, counting, clientVars>>

\* the watch ends with an error: the loop's catch
WatchError ==
    \E l \in BagToSet(loops) :
      /\ l.pc = "watch"
      /\ loops' = Replace(l, Catch(l))
      /\ calls' = [calls EXCEPT !.failure = @ + CatchFailures(l, FALSE)]
      /\ last' = Step("watchError", <<>>, 0, <<>>)
      /\ UNCHANGED <<resources, firstLoadComplete, stopping, watchTask, starting, tagged, counting, clientVars>>

\* the sleep is over: the loop condition, with the locals as the catch left them
AfterSleep(l) ==
    LET n == Iterate(l.resourceVersion, l.delay) IN
    IF n.pc = "list" THEN [n EXCEPT !.fails = l.fails] ELSE n

\* await new Promise(r => setTimeout(r, delay)) is over
SleepDone ==
    \E l \in BagToSet(loops) :
      /\ l.pc = "sleep"
      /\ loops' = Replace(l, AfterSleep(l))
      /\ last' = Step("sleepDone", <<>>, 0, <<>>)
      /\ UNCHANGED <<resources, firstLoadComplete, stopping, watchTask, starting,
                     calls, tagged, counting, clientVars>>

\* -------------------------------------------------------------- stop()
\* this._stopping = true; if (this.watchTask) this.watch.abort() is called, and
\* awaited inside try/catch, so an error of the abort never leaves stop()
Stop ==
    /\ calls.stop < MaxStops
    /\ stopping' = TRUE
    /\ calls' = [calls EXCEPT !.stop = @ + 1,
                               !.abort = IF watchTask THEN @ + 1 ELSE @]
    /\ last' = Step("stop", <<>>, 0, <<>>)
    /\ UNCHANGED <<resources, firstLoadComplete, watchTask, starting, loops, tagged, counting, clientVars>>

Next ==
    \/ StartRejected
    \/ StartCalled
    \/ StartListOk
    \/ StartListFail
    \/ LoopListOk
    \/ LoopListFail
    \/ WatchEvent
    \/ WatchClosed
    \/ WatchError
    \/ SleepDone
    \/ Stop

Spec == Init /\ [][Next]_vars

SpecTagged == InitTagged /\ [][Next]_vars

\* an owner that awaits each start() before it calls start() again
StartCalledAlone == starting = 0 /\ StartCalled

NextSequential ==
    \/ StartRejected
    \/ StartCalledAlone
    \/ StartListOk
    \/ StartListFail
    \/ LoopListOk
    \/ LoopListFail
    \/ WatchEvent
    \/ WatchClosed
    \/ WatchError
    \/ SleepDone
    \/ Stop

SpecSequential == Init /\ [][NextSequential]_vars

\* the same reflector and owner, observed with the failed lists counted
InitCounted ==
    /\ resources = EmptyMap
    /\ firstLoadComplete = FALSE
    /\ stopping = FALSE
    /\ watchTask = FALSE
    /\ starting = 0
    /\ loops = EmptyBag
    /\ calls = [start |-> 0, ok |-> 0, failed |-> 0, usage |-> 0, stop |-> 0,
                abort |-> 0, failure |-> 0]
    /\ last = Step("new", <<>>, 0, <<>>)
    /\ tagged = FALSE
    /\ counting = TRUE
    /\ ClientInit

SpecCounted == InitCounted /\ [][NextSequential]_vars

\* every remote call in flight and every sleep is eventually over; the owner
\* is not obliged to call anything
Fairness ==
    /\ WF_vars(StartListOk \/ StartListFail)
    /\ WF_vars(LoopListOk \/ LoopListFail)
    /\ WF_vars(WatchClosed \/ WatchError)
    /\ WF_vars(SleepDone)

SpecFair == Init /\ [][NextSequential]_vars /\ Fairness

\* ------------------------------------------------- client.js: the calls
\* the API classes the library exports under k8s[clientType]
ClientTypes == {"CoreV1Api", "NetworkingV1Api"}

\* the names sharedClient is called with: the API classes and a name the
\* library does not export
RequestedTypes == ClientTypes \cup {"NoSuchApi"}

\* an option left at its default null
NoValue == "null"

\* { host = null, sslCaCert = null, verifySsl = true }
Options == [host : {NoValue, "h"}, sslCaCert : {NoValue, "ca"}, verifySsl : BOOLEAN]

\* what the environment holds: an in-cluster configuration, else a default
\* kubeconfig, else nothing loadable; and whether the loaded configuration
\* has a current cluster
Sources == {"cluster", "default", "none"}

\* kubeConfig = new k8s.KubeConfig(); loadFromCluster(), on error
\* loadFromDefault(); then the overrides on the current cluster, if any.
\* serial tells the KubeConfig objects apart.
LoadedConfig(n, src, hasCluster, o) ==
    [serial |-> n,
     source |-> src,
     cluster |-> IF src # "none" /\ hasCluster
                 THEN [present |-> TRUE,
                       server |-> IF o.host # NoValue THEN o.host ELSE src,
                       caFile |-> IF o.sslCaCert # NoValue THEN o.sslCaCert ELSE src,
                       skipTLSVerify |-> ~o.verifySsl]
                 ELSE [present |-> FALSE]]

\* loadConfig(options): kubeConfig is assigned before anything can throw, so
\* a load that fails leaves a configuration object behind
LoadConfig ==
    /\ kubeConfig.serial < MaxLoads
    /\ \E src \in Sources, hasCluster \in BOOLEAN, o \in Options :
         /\ kubeConfig' = LoadedConfig(kubeConfig.serial + 1, src, hasCluster, o)
         /\ returned' = [call |-> "loadConfig", ok |-> src # "none"]
    /\ UNCHANGED <<clientCache, made>>
    /\ UNCHANGED <<resources, firstLoadComplete, stopping, watchTask, starting,
                   loops, calls, last, tagged, counting>>

\* a faulty sharedClient that never finds a type in the cache
CachedNever(cache, t) == FALSE

\* clientCache.has(clientType)
Cached(cache, t) == t \in DOMAIN cache

\* the failure of a sharedClient call, if it has one: no configuration, a
\* name that is no export of the library, or makeApiClient throwing because
\* the configuration has no current cluster
Failure(t) ==
    IF kubeConfig = Null THEN "Kubernetes config not loaded"
    ELSE IF Cached(clientCache, t) THEN "no"
    ELSE IF t \notin ClientTypes THEN "Invalid Kubernetes client type"
    ELSE IF ~kubeConfig.cluster.present THEN "No active cluster"
    ELSE "no"

\* kubeConfig.makeApiClient(ClientConstructor): a new client of the
\* configuration loaded last
MakeApiClient(t) == [type |-> t, config |-> kubeConfig, serial |-> Len(made) + 1]

\* sharedClient(clientType)
SharedClient ==
    /\ \E t \in RequestedTypes :
         IF Failure(t) # "no"
         THEN /\ returned' = [call |-> "sharedClient", type |-> t, ok |-> FALSE,
                               error |-> Failure(t)]
              /\ UNCHANGED <<clientCache, made>>
         ELSE /\ clientCache' = IF Cached(clientCache, t) THEN clientCache
                                 ELSE MapSet(clientCache, t, MakeApiClient(t))
              /\ made' = IF Cached(clientCache, t) THEN made
                          ELSE Append(made, MakeApiClient(t))
              /\ returned' = [call |-> "sharedClient", type |-> t, ok |-> TRUE,
                               value |-> clientCache'[t]]
    /\ UNCHANGED kubeConfig
    /\ UNCHANGED <<resources, firstLoadComplete, stopping, watchTask, starting,
                   loops, calls, last, tagged, counting>>

NextClient ==
    \/ LoadConfig
    \/ SharedClient

SpecClient == Init /\ [][NextClient]_vars

\* ------------------------------------------------------------ properties
RECURSIVE SumCopies(_, _)
SumCopies(b, S) ==
    IF S = {} THEN 0
    ELSE LET l == CHOOSE x \in S : TRUE IN CopiesIn(l, b) + SumCopies(b, S \ {l})

\* how many watchAndUpdate() invocations of the bag b are at one of the places P
LoopsAt(b, P) == SumCopies(b, {l \in BagToSet(b) : l.pc \in P})

Running == {"list", "watch", "sleep"}

\* the map a list of items denotes: one entry per item, under the item's key
ItemsMap(items) ==
    [k \in {KeyOf(items[i]) : i \in 1..Len(items)} |->
        items[CHOOSE i \in 1..Len(items) : KeyOf(items[i]) = k]]

\* what a notification means for a mirror: a removal deletes its key, an
\* upsert replaces the whole entry of its key
Notified(m, e) ==
    LET k == KeyOf(e.object) IN
    [j \in (IF e.type = "DELETED" THEN DOMAIN m \ {k} ELSE DOMAIN m \cup {k}) |->
        IF j = k THEN e.object ELSE m[j]]

Bootstrapped == last.op \in {"startOk", "listOk"}

\* C1: at most one reconciliation loop exists and at most one Bootstrap or
\* Watch is in flight, whatever the interleaving of start(), stop() and the
\* completions of the remote calls.
C1_SingleCycle ==
    /\ LoopsAt(loops, Running) <= 1
    /\ starting + LoopsAt(loops, {"list", "watch"}) <= 1

\* C2: a start() called after an earlier start() has returned successfully
\* ends in the usage error and changes nothing: no list request goes out, and
\* the mirror, the stopping flag, the loop handle and the loops stay as they are.
C2_SecondStartRejected ==
    [][(calls.ok > 0 /\ calls'.start > calls.start) =>
          /\ calls'.usage = calls.usage + 1
          /\ UNCHANGED <<resources, firstLoadComplete, stopping, watchTask,
                         starting, loops>>]_vars

C2_Witness ==
    /\ last.op = "startRejected"
    /\ calls.ok > 0
    /\ LoopsAt(loops, Running) > 0

\* C3 as claimed: when start() returns successfully the first Bootstrap has
\* succeeded, the mirror holds its snapshot and a loop is active; a start()
\* whose Bootstrap fails creates no loop.
C3_StartLeavesActiveLoop ==
    [][/\ calls'.ok > calls.ok =>
            /\ firstLoadComplete'
            /\ resources' = ItemsMap(last'.items)
            /\ LoopsAt(loops', Running) >= 1
       /\ calls'.failed > calls.failed =>
            UNCHANGED <<resources, watchTask, loops>>]_vars

\* C3 as amended: when start() returns successfully the first Bootstrap has
\* succeeded, the mirror holds its snapshot and the call has created one loop
\* and set the loop handle; that loop is active unless stop() was called
\* before the Bootstrap completed.  A start() whose Bootstrap fails creates
\* no loop.
C3_StartLeavesLoop ==
    [][/\ calls'.ok > calls.ok =>
            /\ firstLoadComplete'
            /\ resources' = ItemsMap(last'.items)
            /\ watchTask'
            /\ BagCardinality(loops') = BagCardinality(loops) + 1
            /\ ~stopping =>
                 LoopsAt(loops', {"list"}) = LoopsAt(loops, {"list"}) + 1
       /\ calls'.failed > calls.failed =>
            UNCHANGED <<resources, watchTask, loops>>]_vars

C3_Witness ==
    /\ last.op = "startOk"
    /\ ~stopping
    /\ resources # EmptyMap
    /\ loops = SetToBag({Loop("list", InitialRV, Floor)})

\* C4: right after every successful Bootstrap, of start() or of the loop, the
\* mirror is exactly the map of the returned items: no earlier entry survives.
C4_BootstrapReplacesMirror == Bootstrapped => resources = ItemsMap(last.items)

C4_Witness ==
    /\ last.op = "listOk"
    /\ Len(last.items) = 1
    /\ DOMAIN resources = {KeyOf(last.items[1])}

\* the version token of the content a step applied to the mirror
Applied(s) ==
    IF s.op \in {"startOk", "listOk"} THEN s.token
    ELSE s.ev[1].object.resourceVersion

Applies(s) == s.op \in {"startOk", "listOk", "event"}

\* C5: the cursor never moves back: of two applications to the mirror that
\* follow each other (Bootstrap of start(), Bootstrap of the loop,
\* notification) the later one never carries an older token.
C5_CursorNeverRegresses ==
    [][(Applies(last) /\ Applies(last')) => Applied(last') >= Applied(last)]_vars

\* C6: while a watch session is open the mirror changes only by that
\* session's notifications, one at a time and each applied in full, so that
\* the mirror after the session is the fold of the session's notifications
\* over the mirror the session started from.
C6_SessionIsFold ==
    [][\A l \in BagToSet(loops) :
         l.pc = "watch" =>
           \/ resources' = resources
           \/ /\ last'.op = "event"
              /\ last'.ev[1].object.resourceVersion > l.resourceVersion
              /\ resources' = Notified(resources, last'.ev[1])
              /\ loops' = Replace(l, Loop("watch",
                                          last'.ev[1].object.resourceVersion,
                                          l.delay))]_vars

\* C7: a removal deletes its key when the key is there and changes no entry
\* when it is not, so that a second removal of the key changes nothing; no
\* other key is affected.
C7_RemovalIdempotent ==
    [][(last'.op = "event" /\ last'.ev[1].type = "DELETED") =>
          LET k == KeyOf(last'.ev[1].object) IN
          /\ DOMAIN resources' = DOMAIN resources \ {k}
          /\ \A j \in DOMAIN resources' : resources'[j] = resources[j]
          /\ k \notin DOMAIN resources => resources' = resources]_vars

C7_Witness ==
    /\ last.op = "event"
    /\ last.ev[1].type = "DELETED"
    /\ resources # EmptyMap

\* C8: whenever a consumer can read the mirror, the items of list responses
\* it sees all come from one response, and after a Bootstrap that returned
\* items it never sees the mirror cleared and not yet refilled.
C8_NoPartialReplacement ==
    /\ \A j, k \in DOMAIN resources :
         (resources[j].gen # 0 /\ resources[k].gen # 0) =>
             resources[j].gen = resources[k].gen
    /\ (Bootstrapped /\ last.items # <<>>) => resources # EmptyMap

C8_Witness ==
    /\ last.op = "event"
    /\ \E j, k \in DOMAIN resources : resources[j].gen = 2 /\ resources[k].gen = 0

\* C9 as claimed: every Bootstrap success of the loop puts the delay back
\* to its floor.
C9_BootstrapResetsDelay ==
    [][last'.op = "listOk" =>
          \E l \in BagToSet(loops), t \in 1..MaxRV :
             l.pc = "list" /\ loops' = Replace(l, Loop("watch", t, Floor))]_vars

\* C9 as amended: a Bootstrap success of the loop leaves the delay as it is;
\* the delay goes back to its floor when the watch that follows ends without
\* error, and a watch that ends with an error doubles the delay it finds.
C9_CleanWatchResetsDelay ==
    [][/\ last'.op = "listOk" =>
            \E l \in BagToSet(loops), t \in 1..MaxRV :
               l.pc = "list" /\ loops' = Replace(l, Loop("watch", t, l.delay))
       /\ (last'.op = "watchClosed" /\ ~stopping) =>
            \E l \in BagToSet(loops) :
               /\ l.pc = "watch"
               /\ loops' = Replace(l, Loop("list", l.resourceVersion, Floor))
       /\ last'.op = "watchError" =>
            \E l \in BagToSet(loops), n \in BagToSet(loops') :
               /\ l.pc = "watch"
               /\ n.delay = 2 * l.delay
               /\ loops' = Replace(l, n)]_vars

C9_Witness ==
    /\ last.op = "listOk"
    /\ \E l \in BagToSet(loops) : l.pc = "watch" /\ l.delay > Floor

\* a loop enters a Backoff sleep or Failed in this step
Escalates ==
    \E l \in BagToSet(loops), n \in BagToSet(loops') :
       /\ l.pc \in {"list", "watch"}
       /\ n.pc \in {"sleep", "failed"}
       /\ loops' = Replace(l, n)

\* C10 as claimed: only a Bootstrap failure makes the delay grow or leads to
\* a Backoff sleep or to Failed; a watch that ends, cleanly or with an
\* error, while the reflector is not stopping leads to a new Bootstrap
\* without a longer delay.
C10_OnlyBootstrapEscalates ==
    [][/\ Escalates => last'.op = "listFailed"
       /\ (last'.op \in {"watchClosed", "watchError"} /\ ~stopping) =>
            \E l \in BagToSet(loops), d \in {Floor} \cup {m.delay : m \in BagToSet(loops)} :
               /\ l.pc = "watch"
               /\ d <= l.delay
               /\ loops' = Replace(l, Loop("list", l.resourceVersion, d))]_vars

\* C10 as amended: a Bootstrap failure or a watch that ends with an error
\* makes the delay grow and leads to a Backoff sleep or to Failed, and
\* nothing else does; a watch that ends without error while the reflector
\* is not stopping leads to a new Bootstrap with the delay at its floor.
C10_OnlyErrorsEscalate ==
    [][/\ Escalates => last'.op \in {"listFailed", "watchError"}
       /\ (last'.op = "watchClosed" /\ ~stopping) =>
            \E l \in BagToSet(loops) :
               /\ l.pc = "watch"
               /\ loops' = Replace(l, Loop("list", l.resourceVersion, Floor))
       /\ last'.op \in {"listFailed", "watchError"} =>
            \E l \in BagToSet(loops) :
               /\ l.pc = (IF last'.op = "listFailed" THEN "list" ELSE "watch")
               /\ loops' = Replace(l,
                    IF 2 * l.delay > Ceiling THEN Loop("failed", 0, 2 * l.delay)
                    ELSE Loop("sleep", l.resourceVersion, 2 * l.delay))]_vars

C10_Witness ==
    /\ last.op = "watchError"
    /\ ~stopping
    /\ \E l \in BagToSet(loops) : l.pc = "sleep"

RECURSIVE Pow2(_)
Pow2(n) == IF n = 0 THEN 1 ELSE 2 * Pow2(n - 1)

\* C11: in a run of failed Bootstraps that begins with the delay at its
\* floor, the n-th Backoff sleep lasts Floor * 2^(n-1) ms (100, 200, 400,
\* ...), and the loop moves to Failed exactly at the failure where twice the
\* current delay exceeds the ceiling.
C11_BackoffSequence ==
    [][last'.op = "listFailed" =>
         \A l \in BagToSet(loops) :
            (l.pc = "list" /\ l.delay = Floor * Pow2(l.fails)) =>
               LET n == l.fails + 1 IN
               \E m \in BagToSet(loops') :
                  /\ loops' = Replace(l, m)
                  /\ m.pc = "failed" <=> 2 * l.delay > Ceiling
                  /\ m.pc = "sleep" => m.delay = Floor * Pow2(n - 1)]_vars

\* C12: every delay the loop sleeps in Backoff is at most the ceiling: no
\* reachable state has a loop asleep for a delay greater than 30000 ms.
C12_SleepWithinCeiling ==
    \A l \in BagToSet(loops) : l.pc = "sleep" => l.delay <= Ceiling

\* the longest sleep: one more failure makes the loop give up
C12_Witness ==
    \E l \in BagToSet(loops) :
       /\ l.pc = "sleep"
       /\ l.delay <= Ceiling
       /\ 2 * l.delay > Ceiling

\* a Bootstrap, a Watch or a Backoff sleep starts in this step
StartsWork ==
    \/ starting' > starting
    \/ \E pc \in Running : LoopsAt(loops', {pc}) > LoopsAt(loops, {pc})

\* C13: the step in which the loop gives up calls the failure callback
\* exactly once and ends the loop; once the loop has given up the reflector
\* starts no Bootstrap, no Watch and no Backoff sleep, and the callback is
\* not called again.
C13_GiveUpIsFinal ==
    [][/\ LoopsAt(loops', {"failed"}) > LoopsAt(loops, {"failed"}) =>
            calls'.failure = calls.failure + 1
       /\ LoopsAt(loops, {"failed"}) > 0 =>
            /\ ~StartsWork
            /\ calls'.failure = calls.failure]_vars

\* C14: a Bootstrap that fails before the mirror was ever filled is reported
\* to the failure callback and, unless stop() was called, retried by the
\* reflector itself: right after the failure a loop is asleep before its next list, or already listing
\* again.  (Without such a loop no continuation of the reflector is pending,
\* and no Bootstrap is issued until the owner calls start() again.)
C14_EarlyFailureRetried ==
    [][(last'.op \in {"startFailed", "listFailed"} /\ ~firstLoadComplete
                                                     /\ ~stopping) =>
          /\ calls'.failure = calls.failure + 1
          /\ LoopsAt(loops', {"list", "sleep"}) > 0]_vars

\* the onFailure calls made by listAndUpdate itself: all calls but the one
\* each loop that gave up has made
OwnEscalations(c, b) == c.failure - LoopsAt(b, {"failed"})

\* C15: a failed Bootstrap calls the failure callback if and only if
\* firstLoadComplete is false when it fails, and in both cases the error
\* reaches the caller: start() fails, the loop's catch block runs.
C15_EscalatesBeforeFirstLoad ==
    [][last'.op \in {"startFailed", "listFailed"} =>
          /\ OwnEscalations(calls', loops') - OwnEscalations(calls, loops)
                = (IF firstLoadComplete THEN 0 ELSE 1)
          /\ last'.op = "startFailed" =>
                /\ calls'.failed = calls.failed + 1
                /\ starting' = starting - 1
                /\ loops' = loops
          /\ last'.op = "listFailed" =>
                \E l \in BagToSet(loops), n \in BagToSet(loops') :
                   /\ l.pc = "list"
                   /\ n.pc \in {"sleep", "failed"}
                   /\ loops' = Replace(l, n)]_vars

\* a start() failed before the first load and was escalated; the loop of a
\* later start() has just failed a list, which was not escalated
C15_Witness ==
    /\ last.op = "listFailed"
    /\ firstLoadComplete
    /\ calls.failed = 1
    /\ calls.failure = 1
    /\ LoopsAt(loops, {"failed"}) = 0

\* C16: after stop() on a started reflector, whether the loop is listing,
\* watching or asleep, the loop eventually reaches Stopped, provided every
\* remote call in flight and every sleep is eventually over; a stop() that
\* finds a watch in flight asks for its cancellation and returns normally.
C16_StopReachesStopped ==
    /\ (stopping /\ LoopsAt(loops, Running) > 0) ~> (LoopsAt(loops, {"stopped"}) > 0)
    /\ [][(stopping' /\ ~stopping /\ LoopsAt(loops, {"watch"}) > 0) =>
             /\ calls'.abort = calls.abort + 1
             /\ calls'.stop = calls.stop + 1]_vars

\* C17: a start() called after stop() ends at once in the usage error: no
\* list request goes out, the mirror is not modified and no loop is created.
C17_StartAfterStopRejected ==
    [][(stopping /\ calls'.start > calls.start) =>
          /\ calls'.usage = calls.usage + 1
          /\ UNCHANGED <<resources, firstLoadComplete, watchTask, starting,
                         loops>>]_vars

\* C18: once the loop is in Failed the mirror and the cursor never change
\* again: no later step changes an entry, and no Bootstrap and no
\* notification is applied.
C18_FailedFreezesMirror ==
    [][LoopsAt(loops, {"failed"}) > 0 =>
          /\ resources' = resources
          /\ Applies(last') => last' = last]_vars

\* the objects and notifications of the scenario of C19
ObjectAt(name, rv) == [namespace |-> "a", name |-> name, resourceVersion |-> rv, gen |-> 0]

UpsertY2 == [type |-> "ADDED", object |-> ObjectAt("y", 2)]

RemoveX3 == [type |-> "DELETED", object |-> ObjectAt("x", 3)]

\* C19: in the loop the cursor is the token of the Bootstrap until a
\* notification is applied and then the version of the notification applied
\* last; the end of the watch and the Backoff sleep keep it, and the next
\* Bootstrap is requested with it.  In particular Bootstrap [a/x v1], then
\* upsert a/y v2, then remove a/x v3 end with the mirror {a/y: v2} and the
\* cursor 3.
C19_CursorFollowsSession ==
    [][/\ last'.op = "listOk" =>
            \E l \in BagToSet(loops) :
               /\ l.pc = "list"
               /\ last'.token >= l.resourceVersion
               /\ loops' = Replace(l, Loop("watch", last'.token, l.delay))
       /\ last'.op = "event" =>
            \E l \in BagToSet(loops) :
               /\ l.pc = "watch"
               /\ resources' = Notified(resources, last'.ev[1])
               /\ loops' = Replace(l, Loop("watch",
                                           last'.ev[1].object.resourceVersion,
                                           l.delay))
       /\ last'.op \in {"watchClosed", "watchError", "sleepDone"} =>
            \E l \in BagToSet(loops), n \in BagToSet(loops') :
               /\ loops' = Replace(l, n)
               /\ n.pc \in {"list", "sleep"} => n.resourceVersion = l.resourceVersion
       /\ (/\ last = Step("listOk", <<ObjectAt("x", 1)>>, 1, <<>>)
           /\ last' = Step("event", <<>>, 0, <<UpsertY2>>)) =>
            /\ resources' = ItemsMap(<<ObjectAt("x", 1), ObjectAt("y", 2)>>)
            /\ \E l \in BagToSet(loops') : l.pc = "watch" /\ l.resourceVersion = 2
       /\ (/\ last = Step("event", <<>>, 0, <<UpsertY2>>)
           /\ resources = ItemsMap(<<ObjectAt("x", 1), ObjectAt("y", 2)>>)
           /\ last' = Step("event", <<>>, 0, <<RemoveX3>>)) =>
            /\ resources' = ItemsMap(<<ObjectAt("y", 2)>>)
            /\ \E l \in BagToSet(loops') : l.pc = "watch" /\ l.resourceVersion = 3]_vars

\* the end of the scenario: a/x v3 was removed last, a/y v2 is what is left
C19_Witness ==
    /\ last = Step("event", <<>>, 0, <<RemoveX3>>)
    /\ resources = ItemsMap(<<ObjectAt("y", 2)>>)
    /\ loops = SetToBag({Loop("watch", 3, Floor)})

\* C20: when a watch ends without error and the reflector is not stopping,
\* the loop's next action is a Bootstrap, with no Backoff sleep before it:
\* the same step leaves the loop with its list request in flight, sent with
\* the cursor, and with the delay at its floor whatever it was before; the
\* mirror is not touched and nothing is reported to the failure callback.
C20_CleanCloseRelists ==
    [][(last'.op = "watchClosed" /\ ~stopping) =>
          /\ \E l \in BagToSet(loops) :
                /\ l.pc = "watch"
                /\ loops' = Replace(l, Loop("list", l.resourceVersion, Floor))
          /\ LoopsAt(loops', {"sleep", "failed", "stopped"})
                = LoopsAt(loops, {"sleep", "failed", "stopped"})
          /\ LoopsAt(loops', {"list"}) = LoopsAt(loops, {"list"}) + 1
          /\ UNCHANGED <<resources, calls>>]_vars

\* a watch has just ended without error on a running reflector: the next
\* list is in flight, sent with the cursor, and the delay is at its floor
C20_Witness ==
    /\ last.op = "watchClosed"
    /\ ~stopping
    /\ \E l \in BagToSet(loops) :
          l.pc = "list" /\ l.delay = Floor /\ l.resourceVersion > InitialRV
    /\ LoopsAt(loops, {"sleep"}) = 0

\* the clients of type t constructed so far
MadeOf(t) == {i \in 1..Len(made) : made[i].type = t}

\* C21: whatever loadConfig and sharedClient calls are made, at most one
\* client is ever constructed per type, and every sharedClient(t) that
\* succeeds returns that client; a sharedClient call made before any
\* loadConfig, or with an unknown type, fails and leaves the cache as it is.
C21_OneClientPerType ==
    /\ [](\A t \in RequestedTypes : Cardinality(MadeOf(t)) <= 1)
    /\ [](returned.call = "sharedClient" =>
            IF returned.ok
            THEN /\ MadeOf(returned.type) # {}
                 /\ \A i \in MadeOf(returned.type) : returned.value = made[i]
            ELSE TRUE)
    /\ [][(returned'.call = "sharedClient"
             /\ (kubeConfig = Null \/ returned'.type \notin ClientTypes)) =>
            /\ ~returned'.ok
            /\ UNCHANGED <<clientCache, made, kubeConfig>>]_vars

\* sharedClient has just returned, after a second loadConfig, the client it
\* made under the first configuration
C21_Witness ==
    /\ returned.call = "sharedClient"
    /\ returned.ok
    /\ kubeConfig.serial = 2
    /\ returned.value.config.serial = 1
    /\ Len(made) = 2

\* C22: once stop() has been called the loop starts no remote operation: no
\* list request goes out and no watch is opened, also when stop() came
\* while a list was in flight, so that no watch is open that stop() did not
\* find in flight.
C22_NothingOpenedAfterStop ==
    [][stopping =>
          /\ LoopsAt(loops', {"list"}) <= LoopsAt(loops, {"list"})
          /\ LoopsAt(loops', {"watch"}) <= LoopsAt(loops, {"watch"})]_vars

\* C23: a Bootstrap whose list call fails, in start() or in the loop, leaves
\* the mirror's entries and firstLoadComplete as they were; and no step ever
\* sets firstLoadComplete back to false.
C23_FailedListChangesNothing ==
    [][/\ last'.op \in {"startFailed", "listFailed"} =>
            UNCHANGED <<resources, firstLoadComplete>>
       /\ firstLoadComplete => firstLoadComplete']_vars

\* the loop's list has just failed and the mirror still holds its entries
C23_Witness ==
    /\ last.op = "listFailed"
    /\ firstLoadComplete
    /\ resources # EmptyMap

====
